---- MODULE Spec2Model ----
(***************************************************************************)
(* The ncclBroadcast interception library (theo/debug/nccl_hook.cpp).      *)
(*                                                                         *)
(* The library is preloaded into a multi-threaded host process.  Its only  *)
(* shared state is the file-static pointer real_ncclBroadcast; every       *)
(* thread that calls the exported ncclBroadcast runs                       *)
(* load_real_nccl_functions and then the body of the shim.  Neither        *)
(* function takes a lock, so each read and each write of the static        *)
(* pointer is a step of its own and the threads interleave between them.   *)
(* The outcomes of dlopen, dlsym and of the real ncclBroadcast belong to   *)
(* the environment and are chosen nondeterministically.                    *)
(***************************************************************************)
EXTENDS Naturals, Sequences, FiniteSets

\* ------------------------------------------------------------- bounds ----

\* Number of shim calls each thread makes.
MaxCalls == 2

\* ------------------------------------------------------ program values ----

\* The threads of the host process that call the hooked function.
Threads == {"t1", "t2"}

\* The initial value of the cached pointer, and what dlopen/dlsym return on failure.
NULL == "nullptr"

\* The handle dlopen returns for libnccl.so.2.
LibHandle == "libnccl.so.2"

\* The address dlsym returns for "ncclBroadcast" in libnccl.so.2.
RealFn == "libnccl.so.2:ncclBroadcast"

\* Values of ncclResult_t the real ncclBroadcast may return.
Statuses == {"ncclSuccess", "ncclSystemError", "ncclInternalError"}

\* The argument lists a caller passes, in parameter order:
\* sendbuff, recvbuff, count, datatype, root, comm, stream.
ArgLists ==
    { <<16, 32, 1024, 7, 0, 48, 64>>, <<17, 33, 2, 7, 1, 49, 65>> }

\* No argument list / no status / no pointer yet in the current call.
NoArgs == <<>>
NoStatus == "none"

\* The parameters of the shim, by name.
Sendbuff(a) == a[1]
Recvbuff(a) == a[2]
Count(a) == a[3]
Datatype(a) == a[4]
Root(a) == a[5]
Comm(a) == a[6]
Stream(a) == a[7]

\* ------------------------------------------------------------ outputs ----

\* printf at line 14: dlopen failed.
LoadFailDiag == <<"[HOOK] Failed to load libnccl.so.2">>

\* printf at line 19: dlsym failed.
SymFailDiag == <<"[HOOK] Failed to find original ncclBroadcast in libnccl.so.2">>

\* printf at line 29: the shim found no original function.
NotFoundDiag == <<"[HOOK] ncclBroadcast: Original function not found, returning error.">>

\* printf at line 33: the per-call trace record, carrying count and root.
TraceRecord(a) == <<"[HOOK] Intercepted ncclBroadcast", Count(a), Root(a)>>

IsTrace(r) == r[1] = "[HOOK] Intercepted ncclBroadcast"
IsDiag(r) == ~IsTrace(r)

\* What load_real_nccl_functions prints when dlopen fails (lines 13-16).
LoadFailOutput == <<LoadFailDiag>>

\* What the shim prints when the cached pointer is null (lines 28-31).
NotFoundOutputSilent == <<>>
NotFoundOutput == <<NotFoundDiag>>

\* What the shim prints before forwarding (line 33).
TraceOutputWrongFields(a) == << <<"[HOOK] Intercepted ncclBroadcast", Root(a), Count(a)>> >>
TraceOutput(a) == <<TraceRecord(a)>>

\* Where control goes when dlopen fails: line 15 returns to the shim, which
\* goes on at line 28.
AfterLoadFailureRetry == "L11"
AfterLoadFailureLookup == "L17"
AfterLoadFailure == "L28"

\* The status the shim returns when the cached pointer is null (line 30).
NotFoundStatus == "ncclSystemError"

\* The arguments the shim passes to the real function (line 36).
ForwardArgsSwapped(a) ==
    <<Recvbuff(a), Sendbuff(a), Count(a), Datatype(a), Root(a), Comm(a), Stream(a)>>
ForwardArgs(a) ==
    <<Sendbuff(a), Recvbuff(a), Count(a), Datatype(a), Root(a), Comm(a), Stream(a)>>

\* The status the shim returns for the status the real function returned (line 36).
ShimReturnMasked(s) == IF s = "ncclSuccess" THEN s ELSE "ncclSystemError"
ShimReturn(s) == s

\* ------------------------------------- the CI workflow (theo/run.sh) ----

\* Strings are sequences of characters.  The longest test_to_run input.
MaxInputLen == 3
Chars == {"a", "l", ","}

RECURSIVE StringsOfLen(_)
StringsOfLen(n) ==
    IF n = 0 THEN {<<>>}
    ELSE {Append(s, c) : s \in StringsOfLen(n - 1), c \in Chars}

\* The values of the workflow_dispatch input test_to_run.
Inputs == UNION {StringsOfLen(n) : n \in 0..MaxInputLen}

\* The word `all`.
All == <<"a", "l", "l">>

\* The events that trigger the workflow (the `on:` block).
Events == {"schedule", "pull_request", "push", "workflow_dispatch"}

\* github.event.label.name: the label just added to a pull request; empty
\* for the other events.
Labels == {"Run CICD", "documentation"}
NoLabel == ""

\* HAS_LABEL: ${{ github.event.label.name == 'Run CICD' }}.
HAS_LABEL(l) == IF l = "Run CICD" THEN "true" ELSE "false"

\* The if/elif chain of the step "Select tests to run": the value of
\* TESTS_TO_RUN it leaves, or the exit 1 of the else branch.
SelectUnlabelledRunsAll(ev, hl, ts) ==
    IF ev = "workflow_dispatch" THEN [supported |-> TRUE, TESTS_TO_RUN |-> ts]
    ELSE IF ev \in {"pull_request", "push"} THEN [supported |-> TRUE, TESTS_TO_RUN |-> All]
    ELSE [supported |-> FALSE, TESTS_TO_RUN |-> ts]
Select(ev, hl, ts) ==
    IF ev = "workflow_dispatch" THEN [supported |-> TRUE, TESTS_TO_RUN |-> ts]
    ELSE IF ev = "pull_request" /\ hl = "true"
    THEN [supported |-> TRUE, TESTS_TO_RUN |-> All]
    ELSE IF ev = "pull_request" /\ hl # "true"
    THEN [supported |-> TRUE, TESTS_TO_RUN |-> <<>>]
    ELSE IF ev = "push" THEN [supported |-> TRUE, TESTS_TO_RUN |-> All]
    ELSE [supported |-> FALSE, TESTS_TO_RUN |-> ts]

\* jq --raw-input 'split(",")': the pieces between the commas; the empty
\* string splits into the empty array.
FirstComma(s) ==
    IF \E i \in 1..Len(s) : s[i] = ","
    THEN CHOOSE i \in 1..Len(s) : s[i] = "," /\ \A k \in 1..(i - 1) : s[k] # ","
    ELSE 0

RECURSIVE Pieces(_)
Pieces(s) ==
    LET i == FirstComma(s) IN
    IF i = 0 THEN <<s>>
    ELSE <<SubSeq(s, 1, i - 1)>> \o Pieces(SubSeq(s, i + 1, Len(s)))

JqSplit(s) == IF s = <<>> THEN <<>> ELSE Pieces(s)

\* jq -c: the compact JSON text of an array of strings.
Quoted(s) == <<"\"">> \o s \o <<"\"">>

RECURSIVE Elements(_)
Elements(l) ==
    IF l = <<>> THEN <<>>
    ELSE IF Len(l) = 1 THEN Quoted(l[1])
    ELSE Quoted(l[1]) \o <<",">> \o Elements(Tail(l))

Json(l) == <<"[">> \o Elements(l) \o <<"]">>

\* The text '[]' the job conditions compare the output with, and the value
\* of an output that was never set.
EmptyList == <<"[", "]">>
NoOutput == <<>>

\* The jobs of the workflow up to Nemo_CICD_Test.
Final == "Nemo_CICD_Test"
Jobs ==
    {"pre-flight", "code-linting", "cicd-wait-in-queue", "cicd-test-container-build",
     "cicd-import-tests", "L0_Setup_Test_Data_And_Models", "cicd-main-unit-tests",
     "cicd-main-export-deploy", "cicd-main-speech", "cicd-main-automodel",
     "cicd-main-nemo2", Final}

\* needs: of each job.
Needs(j) ==
    CASE j = "pre-flight" -> {}
      [] j \in {"code-linting", "cicd-wait-in-queue"} -> {"pre-flight"}
      [] j = "cicd-test-container-build" ->
            {"pre-flight", "code-linting", "cicd-wait-in-queue"}
      [] j \in {"cicd-import-tests", "L0_Setup_Test_Data_And_Models",
                "cicd-main-unit-tests"} ->
            {"pre-flight", "cicd-test-container-build"}
      [] j \in {"cicd-main-export-deploy", "cicd-main-speech", "cicd-main-automodel",
                "cicd-main-nemo2"} ->
            {"pre-flight", "cicd-test-container-build", "cicd-main-unit-tests"}
      [] j = Final ->
            {"pre-flight", "cicd-test-container-build", "cicd-import-tests",
             "L0_Setup_Test_Data_And_Models", "cicd-main-unit-tests", "cicd-main-nemo2",
             "cicd-main-export-deploy", "cicd-main-automodel", "cicd-main-speech"}

\* The jobs with if: needs.pre-flight.outputs.test_to_run != '[]'.
Gated ==
    {"code-linting", "cicd-wait-in-queue", "cicd-test-container-build",
     "cicd-import-tests"}

\* The jobs between pre-flight and Nemo_CICD_Test.
WorkJobs == Jobs \ {"pre-flight", Final}

\* The conclusion of a job: none while it has not completed.
Pending == "pending"
Outcomes == {"success", "failure", "cancelled"}
Conclusions == Outcomes \cup {"skipped"}

\* The step "Get workflow result": RESULT from the numbers of failed,
\* cancelled and skipped jobs of the run.
RESULTIgnoringSkipped(NUM_FAILED, NUM_CANCELLED, NUM_SKIPPED) ==
    IF NUM_FAILED = 0 /\ NUM_CANCELLED = 0 THEN "success"
    ELSE IF NUM_FAILED = 0 /\ NUM_CANCELLED > 0 THEN "cancelled"
    ELSE "failure"
RESULT(NUM_FAILED, NUM_CANCELLED, NUM_SKIPPED) ==
    IF NUM_FAILED = 0 /\ NUM_CANCELLED = 0 /\ NUM_SKIPPED = 0 THEN "success"
    ELSE IF NUM_FAILED = 0 /\ NUM_CANCELLED > 0 /\ NUM_SKIPPED = 0 THEN "cancelled"
    ELSE "failure"
NoCode == "none"

\* The step "Exit": the exit status for steps.result.outputs.code.
ExitStatus(r) == IF r = "success" THEN 0 ELSE 1

\* -------------------------------------------------------------- state ----

VARIABLES
    real_ncclBroadcast, \* the static cached pointer (line 7)
    pc,                 \* per thread: the line it is about to execute, or "idle"/"crashed"
    calls,              \* per thread: the number of shim calls started
    args,               \* per thread: the arguments of the current (or last) call
    handle,             \* per thread: the local `handle` of load_real_nccl_functions
    res,                \* per thread: how load_real_nccl_functions ended in this call
    chk,                \* per thread: the pointer value the shim read at line 28
    fptr,               \* per thread: the pointer the shim called through at line 36
    realArgs,           \* per thread: the arguments the real function received
    realRet,            \* per thread: the status the real function returned
    ret,                \* per thread: the status the shim returned
    out,                \* per thread: the records printed during this call, in order
    overlap,            \* per thread: the threads whose call ran concurrently with this one
    pre,                \* per thread: this call began before any resolution attempt ended
    nOpen,              \* dlopen calls made in the process
    nOpenOK,            \* dlopen calls that returned a handle
    nSym,               \* dlsym calls made in the process (each one stores into the cache)
    nPopulate,          \* stores of a non-null pointer into the cache
    nLoadFailDiag,      \* load-failure records (line 14) printed in the process
    seen,               \* per thread: what had already happened when this call began
    decided,            \* per thread: the calls (by number) that passed the check of line 28
    realLog,            \* per thread: the calls (by number) the real function was invoked for
    steps,              \* per thread: the steps taken inside the library in this call
    opens,              \* per thread: the dlopen calls made in this call
    syms,               \* per thread: the dlsym calls made in this call
    nNullReads,         \* shim calls that read the cache as null at line 11
    event_name,         \* CI: github.event_name of the workflow run ("none": no run)
    label_name,         \* CI: github.event.label.name
    input,              \* CI: inputs.test_to_run
    test_to_run,        \* CI: the output test_to_run of pre-flight
    conclusion,         \* CI: per job, its conclusion
    code,               \* CI: steps.result.outputs.code of Nemo_CICD_Test
    exit_status         \* CI: the exit statuses of the step "Exit" (at most one)

hook == <<real_ncclBroadcast, pc, calls, args, handle, res, chk, fptr, realArgs,
          realRet, ret, out, overlap, pre, nOpen, nOpenOK, nSym, nPopulate,
          nLoadFailDiag, seen, decided, realLog, steps, opens, syms, nNullReads>>
ci == <<event_name, label_name, input, test_to_run, conclusion, code, exit_status>>
vars == <<hook, ci>>

shared == <<real_ncclBroadcast>>
counters == <<nOpen, nOpenOK, nSym, nPopulate, nLoadFailDiag>>
ghost == <<overlap, pre, seen>>
logs == <<decided, realLog>>
perCall == <<opens, syms>>

\* What the process has been through so far: some dlopen failed, some
\* resolution attempt (open or lookup) failed, some dlopen returned a handle.
History ==
    [openFailed |-> nOpen > nOpenOK,
     failed |-> (nOpen > nOpenOK) \/ (nSym > nPopulate),
     opened |-> nOpenOK > 0]

\* The process is alive until some thread calls through an invalid pointer.
Alive == \A t \in Threads : pc[t] # "crashed"

\* Where control goes when line 11 finds the pointer null: to the dlopen of
\* line 12, whatever earlier attempts did (no failure is remembered).
AfterNullCheckRememberingFailure == IF nOpen > nOpenOK THEN "L28" ELSE "L12"
AfterNullCheck == "L12"

\* A thread inside the library runs whenever the process is alive: lines
\* 10-37 take no lock and wait for nothing.
CanRunUnlessForwarding(t) == Alive /\ \A u \in Threads \ {t} : pc[u] # "inReal"
CanRun(t) == Alive

\* The invocations of the real function that line 36 makes for t's current
\* call: one, for this call.
InvocationsTwice(t) == <<calls[t], calls[t]>>
Invocations(t) == <<calls[t]>>

\* No workflow run: the CI variables while the library is under study.
NoRun ==
    /\ event_name = "none"
    /\ label_name = NoLabel
    /\ input = <<>>
    /\ test_to_run = NoOutput
    /\ conclusion = [j \in Jobs |-> Pending]
    /\ code = NoCode
    /\ exit_status = <<>>

\* The library as loaded: the static pointer is null, no thread is in a call.
HookInit ==
    /\ real_ncclBroadcast = NULL
    /\ pc = [t \in Threads |-> "idle"]
    /\ calls = [t \in Threads |-> 0]
    /\ args = [t \in Threads |-> NoArgs]
    /\ handle = [t \in Threads |-> NULL]
    /\ res = [t \in Threads |-> "none"]
    /\ chk = [t \in Threads |-> NULL]
    /\ fptr = [t \in Threads |-> NULL]
    /\ realArgs = [t \in Threads |-> NoArgs]
    /\ realRet = [t \in Threads |-> NoStatus]
    /\ ret = [t \in Threads |-> NoStatus]
    /\ out = [t \in Threads |-> <<>>]
    /\ overlap = [t \in Threads |-> {}]
    /\ pre = [t \in Threads |-> FALSE]
    /\ nOpen = 0
    /\ nOpenOK = 0
    /\ nSym = 0
    /\ nPopulate = 0
    /\ nLoadFailDiag = 0
    /\ seen = [t \in Threads |-> [openFailed |-> FALSE, failed |-> FALSE, opened |-> FALSE]]
    /\ decided = [t \in Threads |-> <<>>]
    /\ realLog = [t \in Threads |-> <<>>]
    /\ steps = [t \in Threads |-> 0]
    /\ opens = [t \in Threads |-> 0]
    /\ syms = [t \in Threads |-> 0]
    /\ nNullReads = 0

Init == HookInit /\ NoRun

\* ------------------------------------------------------------ actions ----

\* Resolution attempts that have ended: failed opens and symbol lookups.
AttemptsEnded == (nOpen - nOpenOK) + nSym

\* A thread of the host calls the exported ncclBroadcast (line 25).
Call(t) ==
    /\ Alive
    /\ UNCHANGED ci
    /\ pc[t] = "idle"
    /\ calls[t] < MaxCalls
    /\ \E a \in ArgLists : args' = [args EXCEPT ![t] = a]
    /\ calls' = [calls EXCEPT ![t] = @ + 1]
    /\ pc' = [pc EXCEPT ![t] = "L11"]
    /\ handle' = [handle EXCEPT ![t] = NULL]
    /\ res' = [res EXCEPT ![t] = "none"]
    /\ chk' = [chk EXCEPT ![t] = NULL]
    /\ fptr' = [fptr EXCEPT ![t] = NULL]
    /\ realArgs' = [realArgs EXCEPT ![t] = NoArgs]
    /\ realRet' = [realRet EXCEPT ![t] = NoStatus]
    /\ ret' = [ret EXCEPT ![t] = NoStatus]
    /\ out' = [out EXCEPT ![t] = <<>>]
    /\ overlap' = [u \in Threads |->
                     IF u = t THEN {v \in Threads : v # t /\ pc[v] # "idle"}
                     ELSE IF pc[u] # "idle" THEN overlap[u] \cup {t}
                     ELSE overlap[u] \ {t}]
    /\ pre' = [pre EXCEPT ![t] = (AttemptsEnded = 0)]
    /\ seen' = [seen EXCEPT ![t] = History]
    /\ steps' = [steps EXCEPT ![t] = 0]
    /\ opens' = [opens EXCEPT ![t] = 0]
    /\ syms' = [syms EXCEPT ![t] = 0]
    /\ UNCHANGED <<shared, counters, logs, nNullReads>>

\* load_real_nccl_functions, line 11: if (!real_ncclBroadcast).
CheckCached(t) ==
    /\ CanRun(t)
    /\ UNCHANGED ci
    /\ steps' = [steps EXCEPT ![t] = @ + 1]
    /\ pc[t] = "L11"
    /\ IF real_ncclBroadcast # NULL
       THEN /\ res' = [res EXCEPT ![t] = "cached"]
            /\ pc' = [pc EXCEPT ![t] = "L28"]
            /\ nNullReads' = nNullReads
       ELSE /\ res' = res
            /\ pc' = [pc EXCEPT ![t] = AfterNullCheck]
            /\ nNullReads' = nNullReads + 1
    /\ UNCHANGED <<shared, calls, args, handle, chk, fptr, realArgs, realRet, ret,
                   out, ghost, logs, counters, perCall>>

\* Lines 12-16: dlopen("libnccl.so.2", RTLD_LAZY); on failure print and return.
Dlopen(t) ==
    /\ CanRun(t)
    /\ UNCHANGED ci
    /\ steps' = [steps EXCEPT ![t] = @ + 1]
    /\ pc[t] = "L12"
    /\ nOpen' = nOpen + 1
    /\ opens' = [opens EXCEPT ![t] = @ + 1]
    /\ \E ok \in BOOLEAN :
         IF ok
         THEN /\ handle' = [handle EXCEPT ![t] = LibHandle]
              /\ nOpenOK' = nOpenOK + 1
              /\ pc' = [pc EXCEPT ![t] = "L17"]
              /\ UNCHANGED <<res, out, nLoadFailDiag>>
         ELSE /\ handle' = handle
              /\ nOpenOK' = nOpenOK
              /\ out' = [out EXCEPT ![t] = @ \o LoadFailOutput]
              /\ nLoadFailDiag' = nLoadFailDiag + Len(LoadFailOutput)
              /\ res' = [res EXCEPT ![t] = "open_failed"]
              /\ pc' = [pc EXCEPT ![t] = AfterLoadFailure]
    /\ UNCHANGED <<shared, calls, args, chk, fptr, realArgs, realRet, ret, ghost, logs,
                   nSym, nPopulate, syms, nNullReads>>

\* Line 17: real_ncclBroadcast = dlsym(handle, "ncclBroadcast").
Dlsym(t) ==
    /\ CanRun(t)
    /\ UNCHANGED ci
    /\ steps' = [steps EXCEPT ![t] = @ + 1]
    /\ pc[t] = "L17"
    /\ handle[t] = LibHandle
    /\ nSym' = nSym + 1
    /\ syms' = [syms EXCEPT ![t] = @ + 1]
    /\ \E p \in {NULL, RealFn} :
         /\ real_ncclBroadcast' = p
         /\ nPopulate' = IF p # NULL THEN nPopulate + 1 ELSE nPopulate
         /\ res' = [res EXCEPT ![t] = IF p # NULL THEN "resolved" ELSE "sym_failed"]
    /\ pc' = [pc EXCEPT ![t] = "L18"]
    /\ UNCHANGED <<calls, args, handle, chk, fptr, realArgs, realRet, ret, out, ghost, logs,
                   nOpen, nOpenOK, nLoadFailDiag, opens, nNullReads>>

\* Lines 18-20: if (!real_ncclBroadcast) print.  The test reads the static
\* pointer again; with another thread storing into it concurrently the value
\* tested is either the one this thread stored or the one now in the cache.
CheckSym(t) ==
    /\ CanRun(t)
    /\ UNCHANGED ci
    /\ steps' = [steps EXCEPT ![t] = @ + 1]
    /\ pc[t] = "L18"
    /\ \E v \in {IF res[t] = "resolved" THEN RealFn ELSE NULL, real_ncclBroadcast} :
         out' = [out EXCEPT ![t] = IF v = NULL THEN @ \o <<SymFailDiag>> ELSE @]
    /\ pc' = [pc EXCEPT ![t] = "L28"]
    /\ UNCHANGED <<shared, calls, args, handle, res, chk, fptr, realArgs, realRet, ret,
                   ghost, logs, counters, perCall, nNullReads>>

\* The shim, lines 28-31: if (!real_ncclBroadcast) print and return ncclSystemError.
ShimCheck(t) ==
    /\ CanRun(t)
    /\ UNCHANGED ci
    /\ steps' = [steps EXCEPT ![t] = @ + 1]
    /\ pc[t] = "L28"
    /\ chk' = [chk EXCEPT ![t] = real_ncclBroadcast]
    /\ IF real_ncclBroadcast = NULL
       THEN /\ out' = [out EXCEPT ![t] = @ \o NotFoundOutput]
            /\ ret' = [ret EXCEPT ![t] = NotFoundStatus]
            /\ pc' = [pc EXCEPT ![t] = "idle"]
            /\ decided' = decided
       ELSE /\ UNCHANGED <<out, ret>>
            /\ pc' = [pc EXCEPT ![t] = "L33"]
            /\ decided' = [decided EXCEPT ![t] = Append(@, calls[t])]
    /\ UNCHANGED <<shared, calls, args, handle, res, fptr, realArgs, realRet, ghost,
                   realLog, counters, perCall, nNullReads>>

\* Line 33: print the trace record.
Trace(t) ==
    /\ CanRun(t)
    /\ UNCHANGED ci
    /\ steps' = [steps EXCEPT ![t] = @ + 1]
    /\ pc[t] = "L33"
    /\ out' = [out EXCEPT ![t] = @ \o TraceOutput(args[t])]
    /\ pc' = [pc EXCEPT ![t] = "L36"]
    /\ UNCHANGED <<shared, calls, args, handle, res, chk, fptr, realArgs, realRet, ret,
                   ghost, logs, counters, perCall, nNullReads>>

\* Line 36: call through real_ncclBroadcast.  The pointer called through is
\* the one read at line 28 or the one in the cache now (the static is read
\* without synchronisation, so the build may reload it or keep it).
\* Calling through a null pointer ends the process.
Forward(t) ==
    /\ CanRun(t)
    /\ UNCHANGED ci
    /\ steps' = [steps EXCEPT ![t] = @ + 1]
    /\ pc[t] = "L36"
    /\ \E f \in {chk[t], real_ncclBroadcast} :
         /\ fptr' = [fptr EXCEPT ![t] = f]
         /\ IF f = NULL
            THEN /\ pc' = [pc EXCEPT ![t] = "crashed"]
                 /\ realArgs' = realArgs
                 /\ realLog' = realLog
            ELSE /\ pc' = [pc EXCEPT ![t] = "inReal"]
                 /\ realArgs' = [realArgs EXCEPT ![t] = ForwardArgs(args[t])]
                 /\ realLog' = [realLog EXCEPT ![t] = @ \o Invocations(t)]
    /\ UNCHANGED <<shared, calls, args, handle, res, chk, realRet, ret, out, ghost,
                   decided, counters, perCall, nNullReads>>

\* The real ncclBroadcast returns a status and the shim returns it (line 36).
RealReturn(t) ==
    /\ CanRun(t)
    /\ UNCHANGED ci
    /\ steps' = [steps EXCEPT ![t] = @ + 1]
    /\ pc[t] = "inReal"
    /\ \E s \in Statuses :
         /\ realRet' = [realRet EXCEPT ![t] = s]
         /\ ret' = [ret EXCEPT ![t] = ShimReturn(s)]
    /\ pc' = [pc EXCEPT ![t] = "idle"]
    /\ UNCHANGED <<shared, calls, args, handle, res, chk, fptr, realArgs, out, ghost, logs,
                   counters, perCall, nNullReads>>

Next ==
    \E t \in Threads :
        \/ Call(t)
        \/ CheckCached(t)
        \/ Dlopen(t)
        \/ Dlsym(t)
        \/ CheckSym(t)
        \/ ShimCheck(t)
        \/ Trace(t)
        \/ Forward(t)
        \/ RealReturn(t)

Spec == Init /\ [][Next]_vars

\* The next step of thread t inside the library (lines 10-37).
ShimStep(t) ==
    \/ CheckCached(t)
    \/ Dlopen(t)
    \/ Dlsym(t)
    \/ CheckSym(t)
    \/ ShimCheck(t)
    \/ Trace(t)
    \/ Forward(t)
    \/ RealReturn(t)

\* ------------------------------------------------ CI workflow steps ----

\* A workflow run is triggered: by a schedule, a label added to a pull
\* request, a push, or a manual dispatch with its input.
Triggered ==
    /\ event_name \in Events
    /\ label_name \in (IF event_name = "pull_request" THEN Labels ELSE {NoLabel})
    /\ input \in (IF event_name = "workflow_dispatch" THEN Inputs ELSE {<<>>})
    /\ test_to_run = NoOutput
    /\ conclusion = [j \in Jobs |-> Pending]
    /\ code = NoCode
    /\ exit_status = <<>>

InitCI == HookInit /\ Triggered

\* pre-flight, step "Select tests to run": choose TESTS_TO_RUN, or exit 1
\* on an unsupported event; write the split list to the output `main`.
PreFlight ==
    /\ conclusion["pre-flight"] = Pending
    /\ LET sel == Select(event_name, HAS_LABEL(label_name), input) IN
       IF sel.supported
       THEN /\ test_to_run' = Json(JqSplit(sel.TESTS_TO_RUN))
            /\ conclusion' = [conclusion EXCEPT !["pre-flight"] = "success"]
       ELSE /\ test_to_run' = NoOutput
            /\ conclusion' = [conclusion EXCEPT !["pre-flight"] = "failure"]
    /\ UNCHANGED <<event_name, label_name, input, code, exit_status, hook>>

\* All the jobs j needs have completed.
NeedsDone(j) == \A n \in Needs(j) : conclusion[n] # Pending

\* The condition of job j: its if: expression, under the status check
\* success() that applies to a job whose condition names no status function.
Condition(j) ==
    /\ \A n \in Needs(j) : conclusion[n] = "success"
    /\ j \in Gated => test_to_run # EmptyList

\* A job whose needs are done and whose condition holds runs and completes.
RunJob(j) ==
    /\ conclusion[j] = Pending
    /\ NeedsDone(j)
    /\ Condition(j)
    /\ \E o \in Outcomes : conclusion' = [conclusion EXCEPT ![j] = o]
    /\ UNCHANGED <<event_name, label_name, input, test_to_run, code, exit_status, hook>>

\* A job whose needs are done and whose condition is false is skipped.
SkipJob(j) ==
    /\ conclusion[j] = Pending
    /\ NeedsDone(j)
    /\ ~Condition(j)
    /\ conclusion' = [conclusion EXCEPT ![j] = "skipped"]
    /\ UNCHANGED <<event_name, label_name, input, test_to_run, code, exit_status, hook>>

\* The number of jobs of the run with a given conclusion (gh run view).
NumJobs(c) == Cardinality({j \in Jobs : conclusion[j] = c})

\* Nemo_CICD_Test is started, if: always(), once the jobs it needs are done,
\* and its step "Get workflow result" sets the output `code`.
Starts == TRUE

GetWorkflowResult ==
    /\ conclusion[Final] = Pending
    /\ code = NoCode
    /\ NeedsDone(Final)
    /\ Starts
    /\ code' = RESULT(NumJobs("failure"), NumJobs("cancelled"), NumJobs("skipped"))
    /\ UNCHANGED <<event_name, label_name, input, test_to_run, conclusion, exit_status,
                   hook>>

\* The step "Exit" of Nemo_CICD_Test: exit 0 on success, exit 1 otherwise.
Exit ==
    /\ conclusion[Final] = Pending
    /\ code # NoCode
    /\ exit_status' = Append(exit_status, ExitStatus(code))
    /\ conclusion' = [conclusion EXCEPT
                         ![Final] = IF ExitStatus(code) = 0 THEN "success" ELSE "failure"]
    /\ UNCHANGED <<event_name, label_name, input, test_to_run, code, hook>>

NextCI ==
    \/ PreFlight
    \/ \E j \in WorkJobs : RunJob(j)
    \/ \E j \in WorkJobs : SkipJob(j)
    \/ GetWorkflowResult
    \/ Exit

SpecCI == InitCI /\ [][NextCI]_vars

\* ------------------------------------------------------ state notions ----

\* Thread t's last call has returned to its caller.
Returned(t) == pc[t] = "idle" /\ calls[t] > 0

\* The real function was invoked in t's current (or last) call.
Invoked(t) == realArgs[t] # NoArgs

\* t's current (or last) call was forwarded and the real function returned.
ForwardedAndReturned(t) == Returned(t) /\ Invoked(t)

\* The records of a given kind t printed in its current (or last) call.
Traces(t) == SelectSeq(out[t], IsTrace)
Diags(t) == SelectSeq(out[t], IsDiag)

\* ------------------------------------------------------------- claims ----

\* A thread's own resolution attempt failed in its current (or last) call:
\* its dlopen returned null, or its dlsym returned null.
OwnResolutionFailed(t) == res[t] \in {"open_failed", "sym_failed"}

\* C1: whenever a shim call was forwarded and has returned, the status it
\* returned is the status the real ncclBroadcast returned for that call,
\* whatever that status is.
C1_StatusPassedThrough ==
    \A t \in Threads : ForwardedAndReturned(t) => ret[t] = realRet[t]

\* C1 witness: a forwarded call returned a non-success status of the real function.
C1_Witness ==
    \E t \in Threads :
        /\ ForwardedAndReturned(t)
        /\ realRet[t] = "ncclInternalError"
        /\ ret[t] = "ncclInternalError"

\* C2: whenever the real ncclBroadcast has been invoked for a shim call, it
\* received seven arguments and each one equals the argument the shim
\* received in the same position.
C2_ArgumentsForwardedUnchanged ==
    \A t \in Threads :
        Invoked(t) =>
            /\ Len(realArgs[t]) = 7
            /\ \A i \in 1..7 : realArgs[t][i] = args[t][i]

\* C2 witness: a call with count = 2 and root = 1 is inside the real function.
C2_Witness ==
    \E t \in Threads :
        /\ pc[t] = "inReal"
        /\ Count(args[t]) = 2
        /\ Root(args[t]) = 1
        /\ Count(realArgs[t]) = 2

\* C3 (as claimed): a shim call whose resolution failed (its dlopen failed,
\* or its dlsym failed) invokes no real function, does not crash, and
\* returns ncclSystemError.
C3_FailedResolutionReturnsSystemError ==
    \A t \in Threads :
        OwnResolutionFailed(t) =>
            /\ ~Invoked(t)
            /\ pc[t] # "crashed"
            /\ (Returned(t) => ret[t] = "ncclSystemError")

\* C4 (as claimed): the process performs at most one dlopen and at most one dlsym.
C4_AtMostOneOpenAndLookup == nOpen <= 1 /\ nSym <= 1

\* C5 (as claimed): the cache entry real_ncclBroadcast is populated at most once.
C5_CachePopulatedAtMostOnce == nPopulate <= 1

\* A thread is inside the resolution section of load_real_nccl_functions:
\* past the null check of line 11 and before the store of line 17 is done.
InResolution(t) == pc[t] \in {"L12", "L17"}

\* C6 (as claimed): no two threads are inside the resolution section at once.
C6_ResolutionMutuallyExclusive ==
    \A t, u \in Threads : InResolution(t) /\ InResolution(u) => t = u

\* C7 (as claimed): the shim never calls through a null pointer; every
\* invocation goes through the pointer a successful dlsym returned.
C7_NeverCallsThroughInvalidPointer ==
    \A t \in Threads :
        /\ pc[t] # "crashed"
        /\ (Invoked(t) => fptr[t] = RealFn)

\* C8 (as claimed): two calls that ran concurrently and both began before
\* any resolution attempt had ended finish with the same kind of outcome:
\* both forwarded, or both returning the resolution-failure status.
C8_RacingCallsAgree ==
    \A t, u \in Threads :
        ( /\ t # u
          /\ u \in overlap[t]
          /\ pre[t] /\ pre[u]
          /\ Returned(t) /\ Returned(u) )
        => (Invoked(t) <=> Invoked(u))

\* C9: whenever the real ncclBroadcast has been invoked for a shim call, that
\* call has already printed exactly one trace record, and the record carries
\* the call's count and root.
C9_TraceBeforeForward ==
    \A t \in Threads :
        Invoked(t) =>
            Traces(t) = << <<"[HOOK] Intercepted ncclBroadcast",
                             Count(args[t]), Root(args[t])>> >>

\* C9 witness: a call with count = 1024 and root = 0 is inside the real
\* function and its trace record has been printed.
C9_Witness ==
    \E t \in Threads :
        /\ pc[t] = "inReal"
        /\ Count(args[t]) = 1024
        /\ Root(args[t]) = 0
        /\ Len(Traces(t)) = 1

\* No dlopen of the process has succeeded: the real library cannot be opened.
LibraryNeverOpened == nOpenOK = 0

AttemptedOpen(t) ==
    pc[t] = "L17" \/ res[t] \in {"open_failed", "sym_failed", "resolved"}

\* C11 (as claimed): over shim calls in which every open fails, the
\* load-failure diagnostic is printed at most once in the process.
C11_LoadFailureReportedOnce ==
    LibraryNeverOpened => nLoadFailDiag <= 1

\* C12 (as claimed): a shim call made after an open attempt has failed does
\* not attempt the open again.
C12_NoReopenAfterFailedOpen ==
    \A t \in Threads : seen[t].openFailed => ~AttemptedOpen(t)

\* C13 (as claimed): Failed is terminal: a shim call made after a resolution
\* attempt has failed neither resolves the symbol nor is forwarded to the
\* real function.
C13_FailedIsTerminal ==
    \A t \in Threads :
        seen[t].failed => res[t] # "resolved" /\ ~Invoked(t)

\* C14 (as claimed): a shim call made after the library has been opened
\* successfully does not open it again.
C14_NoReopenAfterSuccessfulOpen ==
    \A t \in Threads : seen[t].opened => ~AttemptedOpen(t)

\* The first n elements of a sequence.
Prefix(q, n) == [i \in 1..n |-> q[i]]

\* C15: for each thread, the invocations of the real ncclBroadcast are the
\* thread's shim calls that passed resolution, in the order the thread made
\* them and once each: the list of invocations is always the list of such
\* calls, short of at most the one call still on its way to line 36, and
\* equal to it whenever the thread is inside the real function or has returned.
C15_ForwardedInCallOrder ==
    \A t \in Threads :
        /\ Len(realLog[t]) <= Len(decided[t])
        /\ Len(decided[t]) - Len(realLog[t]) <= 1
        /\ realLog[t] = Prefix(decided[t], Len(realLog[t]))
        /\ \A i, j \in 1..Len(realLog[t]) : i < j => realLog[t][i] < realLog[t][j]
        /\ (pc[t] \in {"idle", "inReal"} => realLog[t] = decided[t])

\* C15 witness: a thread has made all its calls, each was forwarded, and the
\* real function was invoked for them in call order.
C15_Witness ==
    \E t \in Threads :
        /\ Returned(t)
        /\ calls[t] = MaxCalls
        /\ realLog[t] = [i \in 1..MaxCalls |-> i]

\* Thread t is inside a shim call (between entry and return).
InCall(t) == pc[t] \notin {"idle", "crashed"}

\* C16: while a thread is inside the real ncclBroadcast, every other thread
\* that is inside a shim call can take its next step, whichever it is, and
\* one that has reached line 36 can enter the real function: nothing the
\* shim holds across the forwarded call blocks them.
C16_NoLockAcrossForwardedCall ==
    \A t, u \in Threads :
        (t # u /\ Alive /\ pc[t] = "inReal" /\ InCall(u)) =>
            /\ ENABLED ShimStep(u)
            /\ (pc[u] = "L36" => ENABLED (Forward(u) /\ pc'[u] = "inReal"))

\* C16 witness: two threads are inside the real ncclBroadcast at once.
C16_Witness ==
    \E t, u \in Threads : t # u /\ pc[t] = "inReal" /\ pc[u] = "inReal"

\* C17 (as claimed): once real_ncclBroadcast has held a non-null value it
\* holds that value in every later state.
C17_CacheImmutableOncePopulated ==
    nPopulate >= 1 => real_ncclBroadcast = RealFn

\* C18 (as claimed): a shim call on the cached path (it read the pointer as
\* non-null at line 11) performs no dlopen and no dlsym, and does nothing but
\* print the trace record and forward to the real function.
C18_CachedPathOnlyForwards ==
    \A t \in Threads :
        res[t] = "cached" =>
            /\ ~AttemptedOpen(t)
            /\ pc[t] # "crashed"
            /\ (Returned(t) =>
                    /\ Invoked(t)
                    /\ out[t] = << <<"[HOOK] Intercepted ncclBroadcast",
                                     Count(args[t]), Root(args[t])>> >>)

\* C19: the shim never waits and never loops: as long as the process is
\* alive, a thread inside a shim call always has its next step enabled
\* (each dlopen, dlsym, printf and real call returning is such a step), and
\* a call takes at most eight steps, the last of which returns.
C19_ShimCallTerminates ==
    \A t \in Threads :
        /\ steps[t] <= 8
        /\ (Alive /\ InCall(t) => ENABLED ShimStep(t))
        /\ (steps[t] = 8 => Returned(t))

\* C19 witness: a call has gone through every line of the library (open,
\* lookup, check, trace, forward) and has returned, while the other thread
\* is inside a call of its own.
C19_Witness ==
    \E t, u \in Threads :
        /\ t # u
        /\ Returned(t)
        /\ steps[t] = 8
        /\ InCall(u)

\* Every symbol lookup made so far in the process has succeeded (failures,
\* if any, were failures to open the library).
NoLookupFailed == nSym = nPopulate

\* C20: the retry policy of the code.  Failed attempts cache nothing: the
\* pointer stays null until a lookup succeeds.  Every call that gets past
\* line 11 either read a non-null pointer or made an open attempt of its
\* own, also when an earlier open had failed.  And a call whose own dlopen
\* and dlsym succeed (no lookup having failed) is forwarded to the real
\* function and returns its status.
C20_RetryOnEveryCall ==
    /\ (nPopulate = 0 => real_ncclBroadcast = NULL)
    /\ \A t \in Threads :
        /\ (calls[t] > 0 /\ pc[t] \notin {"L11", "L12"}) =>
               (res[t] = "cached" \/ AttemptedOpen(t))
        /\ (Returned(t) /\ res[t] = "resolved" /\ NoLookupFailed) =>
               /\ Invoked(t)
               /\ realRet[t] \in Statuses
               /\ ret[t] = realRet[t]

\* C20 witness: a call that began after an open had failed has opened the
\* library, resolved the symbol, been forwarded and returned the real status.
C20_Witness ==
    \E t \in Threads :
        /\ seen[t].openFailed
        /\ NoLookupFailed
        /\ res[t] = "resolved"
        /\ Returned(t)
        /\ Invoked(t)
        /\ ret[t] = "ncclSuccess"

\* C21: each shim call makes at most one dlopen and at most one dlsym, and
\* makes (or is about to make) its dlsym only with the handle its own dlopen
\* returned; so the opens made in the process are at most the shim calls
\* that read the cache as null at line 11, and the lookups at most the opens
\* that returned a handle.
C21_OneOpenOneLookupPerCall ==
    /\ \A t \in Threads :
        /\ opens[t] <= 1
        /\ syms[t] <= 1
        /\ (pc[t] = "L17" \/ syms[t] > 0) => (opens[t] = 1 /\ handle[t] = LibHandle)
    /\ nOpen <= nNullReads
    /\ nSym <= nOpenOK

\* C21 witness: after an open had failed, a call has read the cache as null,
\* opened the library once and looked the symbol up once, and a call of the
\* other thread found the pointer cached and opened nothing; both returned.
C21_Witness ==
    \E t \in Threads : \E u \in Threads \ {t} :
        /\ seen[t].openFailed
        /\ Returned(t) /\ res[t] = "resolved"
        /\ opens[t] = 1 /\ syms[t] = 1
        /\ Returned(u) /\ res[u] = "cached"
        /\ opens[u] = 0 /\ syms[u] = 0
        /\ nOpen = nNullReads
        /\ nOpen > 1

\* C22: a call whose resolution failed (the shim read the pointer as null at
\* line 28) prints no trace record, and a call that has printed the trace
\* record is forwarded to the real function: it is about to make the call of
\* line 36, is inside the real function, or has returned from it.
C22_TraceOnlyOnForwardedCalls ==
    \A t \in Threads :
        /\ (Returned(t) /\ chk[t] = NULL) => (Traces(t) = <<>> /\ ~Invoked(t))
        /\ Traces(t) # <<>> =>
               \/ pc[t] = "L36"
               \/ pc[t] = "inReal" /\ Invoked(t)
               \/ Returned(t) /\ Invoked(t)

\* ---------------------------------------------- CI workflow claims ----

\* The comma-separated text that names the tests of a list.
RECURSIVE Listing(_)
Listing(l) ==
    IF l = <<>> THEN <<>>
    ELSE IF Len(l) = 1 THEN l[1]
    ELSE l[1] \o <<",">> \o Listing(Tail(l))

\* The tests a comma-separated input names: the k-th one stands between
\* the (k-1)-th and the k-th comma; the empty input names none.
Named(s) ==
    LET cs == {i \in 1..Len(s) : s[i] = ","}
        n == Cardinality(cs)
        pos(k) == IF k = 0 THEN 0
                  ELSE IF k = n + 1 THEN Len(s) + 1
                  ELSE CHOOSE i \in cs : Cardinality({j \in cs : j < i}) = k - 1
    IN  IF s = <<>> THEN <<>>
        ELSE [k \in 1..(n + 1) |-> SubSeq(s, pos(k - 1) + 1, pos(k) - 1)]

\* The text ["all"].
AllList == <<"[", "\"", "a", "l", "l", "\"", "]">>

\* The jobs that ran: they completed otherwise than by being skipped.
Ran(j) == conclusion[j] \in Outcomes

\* C23: pre-flight test selection.  A manual dispatch selects the tests its
\* input lists; a pull request labelled 'Run CICD' and a push select `all`;
\* a pull request with another label selects the empty list, and with the
\* empty list the linting, queue, container-build and import-test jobs do
\* not run; on any other event pre-flight fails.
C23_PreFlightSelection ==
    /\ conclusion["pre-flight"] = "success" =>
        /\ event_name = "workflow_dispatch" =>
              /\ test_to_run = Json(Named(input))
              /\ Listing(Named(input)) = input
              /\ Len(Named(input)) = 0 <=> test_to_run = EmptyList
        /\ (event_name = "pull_request" /\ label_name = "Run CICD") =>
              test_to_run = AllList
        /\ event_name = "push" => test_to_run = AllList
        /\ (event_name = "pull_request" /\ label_name # "Run CICD") =>
              test_to_run = EmptyList
    /\ test_to_run = EmptyList => \A j \in Gated : ~Ran(j)
    /\ (event_name \notin {"workflow_dispatch", "pull_request", "push"}
          /\ conclusion["pre-flight"] # Pending) =>
              conclusion["pre-flight"] = "failure"
    /\ event_name \in {"workflow_dispatch", "pull_request", "push"} =>
          conclusion["pre-flight"] # "failure"

\* C23 witness: a pull request was given another label; pre-flight selected
\* the empty list and the four gated jobs were skipped.
C23_Witness ==
    /\ event_name = "pull_request"
    /\ label_name # "Run CICD"
    /\ conclusion["pre-flight"] = "success"
    /\ test_to_run = EmptyList
    /\ \A j \in Gated : conclusion[j] = "skipped"

\* Some job of the run other than Nemo_CICD_Test has the given conclusion.
Had(c) == \E j \in Jobs \ {Final} : conclusion[j] = c

\* C24: the final result.  Nemo_CICD_Test starts once the jobs it needs are
\* done, whatever their conclusions, and is never skipped; its result is
\* 'success' exactly when no job failed, was cancelled or was skipped,
\* 'cancelled' exactly when none failed or was skipped and one was
\* cancelled, 'failure' otherwise; it exits with status 0 exactly when the
\* result is 'success'.
C24_FinalResult ==
    /\ (NeedsDone(Final) /\ code = NoCode) => ENABLED GetWorkflowResult
    /\ conclusion[Final] # "skipped"
    /\ code # NoCode =>
        /\ \A j \in Jobs \ {Final} : conclusion[j] # Pending
        /\ code \in {"success", "cancelled", "failure"}
        /\ code = "success" <=>
               (~Had("failure") /\ ~Had("cancelled") /\ ~Had("skipped"))
        /\ code = "cancelled" <=>
               (~Had("failure") /\ ~Had("skipped") /\ Had("cancelled"))
        /\ code = "failure" <=> (Had("failure") \/ Had("skipped"))
    /\ exit_status # <<>> =>
        /\ code # NoCode
        /\ Len(exit_status) = 1
        /\ exit_status[1] \in {0, 1}
        /\ exit_status[1] = 0 <=> code = "success"

\* C24 witness: a job was cancelled, none failed or was skipped; the result
\* is 'cancelled' and Nemo_CICD_Test exited with status 1.
C24_Witness ==
    /\ Had("cancelled")
    /\ ~Had("failure")
    /\ ~Had("skipped")
    /\ code = "cancelled"
    /\ exit_status = <<1>>

====
